---- MODULE Spec2Model ----
(***************************************************************************)
(* State-machine model of the fitcheck voice app (src/src/App.tsx): the    *)
(* App component's four state cells, the speech-recognition handle and its *)
(* three callbacks, the 500 ms settle timer, the canned prompts, reset,    *)
(* and the keyword dispatch of generateOutfitRecommendations.              *)
(*                                                                         *)
(* Text is modelled as a sequence of one-character strings so that         *)
(* toLowerCase and includes are computed, not assumed.                     *)
(***************************************************************************)
EXTENDS Integers, Sequences, FiniteSets, TLC

VARIABLES
    hasRecognition,         \* recognitionRef.current !== null
    isListening,            \* useState(false)
    transcript,             \* useState('')
    showResults,            \* useState(false)
    outfitRecommendations,  \* useState([])
    timers,                 \* pending setTimeout callbacks, each holding its finalTranscript
    platform,               \* the recogniser: "idle", "capturing", "stopping" or "errored"
    startCalls,             \* number of recognition.start() calls issued
    lastCall                \* the handler that ran last, with the event it was given

vars == <<hasRecognition, isListening, transcript, showResults,
          outfitRecommendations, timers, platform, startCalls, lastCall>>

----------------------------------------------------------------------------
(* Bounds *)

MaxSegs == 1        \* result segments carried by one capture event
MaxCaptureSegs == 2 \* result segments per event in the capture specification
MaxTimers == 2      \* settle timers pending at once
MaxStarts == 2      \* recognition.start() calls in one run
MaxWords == 2       \* words per spoken phrase in the resolver specification

----------------------------------------------------------------------------
(* Text *)

Str_work    == <<"w","o","r","k">>
Str_date    == <<"d","a","t","e">>
Str_dinner  == <<"d","i","n","n","e","r">>
Str_brunch  == <<"b","r","u","n","c","h">>
Str_friends == <<"f","r","i","e","n","d","s">>
Str_office  == <<"o","f","f","i","c","e">>
Str_Dinner  == <<"D","i","n","n","e","r">>
Str_of      == <<"o","f">>
Str_fice    == <<"f","i","c","e">>
Str_walk    == <<"w","a","l","k">>
Str_brunch_after == <<"b","r","u","n","c","h"," ","a","f","t","e","r"," ">>

examplePrompts ==
    << <<"G","o","i","n","g"," ","t","o"," ","a"," ","d","i","n","n","e","r"," ","d","a","t","e">>,
       <<"M","e","e","t","i","n","g"," ","f","r","i","e","n","d","s"," ","f","o","r"," ","b","r","u","n","c","h">>,
       <<"H","e","a","d","i","n","g"," ","t","o"," ","w","o","r","k">> >>

LowerChar(c) ==
    CASE c = "G" -> "g"
      [] c = "M" -> "m"
      [] c = "H" -> "h"
      [] c = "D" -> "d"
      [] OTHER -> c

toLowerCase(s) == [i \in 1..Len(s) |-> LowerChar(s[i])]

RECURSIVE indexFrom(_, _, _)
indexFrom(s, kw, k) ==
    IF k + Len(kw) - 1 > Len(s) THEN FALSE
    ELSE IF SubSeq(s, k, k + Len(kw) - 1) = kw THEN TRUE
    ELSE indexFrom(s, kw, k + 1)

includes(s, kw) == indexFrom(s, kw, 1)

----------------------------------------------------------------------------
(* The four outfit sets *)

DateNightSet ==
    << [category |-> "Top", icon |-> "Shirt",
        items |-> <<"Fitted button-down shirt", "Slim-fit blazer", "Dark colored polo">>],
       [category |-> "Bottom", icon |-> "ShoppingBag",
        items |-> <<"Dark wash jeans", "Chinos in navy or grey", "Tailored dress pants">>],
       [category |-> "Footwear", icon |-> "Footprints",
        items |-> <<"Chelsea boots", "Leather loafers", "Clean white sneakers">>] >>

BrunchSet ==
    << [category |-> "Top", icon |-> "Shirt",
        items |-> <<"Casual henley", "Light sweater", "Graphic tee with overshirt">>],
       [category |-> "Bottom", icon |-> "ShoppingBag",
        items |-> <<"Light wash jeans", "Khaki chinos", "Comfortable joggers">>],
       [category |-> "Footwear", icon |-> "Footprints",
        items |-> <<"Canvas sneakers", "Casual loafers", "Stylish sandals">>] >>

WorkSet ==
    << [category |-> "Top", icon |-> "Shirt",
        items |-> <<"Crisp dress shirt", "Professional blazer", "Knit polo">>],
       [category |-> "Bottom", icon |-> "ShoppingBag",
        items |-> <<"Dress pants", "Grey wool trousers", "Dark chinos">>],
       [category |-> "Footwear", icon |-> "Footprints",
        items |-> <<"Oxford dress shoes", "Derby shoes", "Minimalist leather sneakers">>] >>

CasualSet ==
    << [category |-> "Top", icon |-> "Shirt",
        items |-> <<"Comfortable t-shirt", "Casual button-up", "Lightweight hoodie">>],
       [category |-> "Bottom", icon |-> "ShoppingBag",
        items |-> <<"Versatile jeans", "Casual chinos", "Comfortable shorts">>],
       [category |-> "Footwear", icon |-> "Footprints",
        items |-> <<"Classic sneakers", "Casual shoes", "Comfortable slip-ons">>] >>

recommendations_WorkBeforeBrunch(input) ==
    LET lowerInput == toLowerCase(input) IN
    IF includes(lowerInput, Str_date) \/ includes(lowerInput, Str_dinner) THEN DateNightSet
    ELSE IF includes(lowerInput, Str_work) \/ includes(lowerInput, Str_office) THEN WorkSet
    ELSE IF includes(lowerInput, Str_brunch) \/ includes(lowerInput, Str_friends) THEN BrunchSet
    ELSE CasualSet

\* The value of the local `recommendations` when the if/else chain is left.
recommendations(input) ==
    LET lowerInput == toLowerCase(input) IN
    IF includes(lowerInput, Str_date) \/ includes(lowerInput, Str_dinner) THEN DateNightSet
    ELSE IF includes(lowerInput, Str_brunch) \/ includes(lowerInput, Str_friends) THEN BrunchSet
    ELSE IF includes(lowerInput, Str_work) \/ includes(lowerInput, Str_office) THEN WorkSet
    ELSE CasualSet

----------------------------------------------------------------------------
(* Capture events *)

NoEvent == [results |-> <<>>, resultIndex |-> 0]

Call(name) == [name |-> name, event |-> NoEvent, input |-> <<>>]

SegTexts == {<<>>, Str_work}

Segment(texts) == [transcript : texts, isFinal : BOOLEAN]

ResultLists(texts, maxLen) == UNION {[1..n -> Segment(texts)] : n \in 0..maxLen}

EventsOf(texts, maxLen) ==
    UNION {{[results |-> rs, resultIndex |-> ri] : ri \in 0..Len(rs)} :
              rs \in ResultLists(texts, maxLen)}

Events == EventsOf(SegTexts, MaxSegs)

\* for (let i = event.resultIndex; i < event.results.length; i++)
RECURSIVE onresultLoop(_, _, _, _)
onresultLoop(results, i, interimTranscript, finalTranscript) ==
    IF i >= Len(results)
    THEN [interimTranscript |-> interimTranscript, finalTranscript |-> finalTranscript]
    ELSE LET transcriptText == results[i + 1].transcript IN
         IF results[i + 1].isFinal
         THEN onresultLoop(results, i + 1, interimTranscript, finalTranscript \o transcriptText)
         ELSE onresultLoop(results, i + 1, interimTranscript \o transcriptText, finalTranscript)

\* finalTranscript || interimTranscript
shownTranscript_InterimFirst(acc) ==
    IF acc.interimTranscript # <<>> THEN acc.interimTranscript ELSE acc.finalTranscript

shownTranscript(acc) ==
    IF acc.finalTranscript # <<>> THEN acc.finalTranscript ELSE acc.interimTranscript

\* if (finalTranscript) setTimeout(..., 500)
scheduled_Always(acc) ==
    <<shownTranscript(acc)>>

scheduled(acc) ==
    IF acc.finalTranscript # <<>> THEN <<acc.finalTranscript>> ELSE <<>>

----------------------------------------------------------------------------
Init ==
    /\ hasRecognition \in BOOLEAN
    /\ isListening = FALSE
    /\ transcript = <<>>
    /\ showResults = FALSE
    /\ outfitRecommendations = <<>>
    /\ timers = <<>>
    /\ platform = "idle"
    /\ startCalls = 0
    /\ lastCall = Call("mount")

----------------------------------------------------------------------------
(* Handlers *)

generateOutfitRecommendations_StaysListening(input) ==
    /\ outfitRecommendations' = recommendations(input)
    /\ showResults' = TRUE
    /\ UNCHANGED isListening

generateOutfitRecommendations(input) ==
    /\ outfitRecommendations' = recommendations(input)
    /\ showResults' = TRUE
    /\ isListening' = FALSE

startListening_NoHandleCheck ==
    /\ lastCall' = Call("startListening")
    /\ IF ~isListening
       THEN /\ transcript' = <<>>
            /\ showResults' = FALSE
            /\ isListening' = TRUE
            /\ startCalls' = startCalls + 1
            /\ platform' = "capturing"
            /\ UNCHANGED <<hasRecognition, outfitRecommendations, timers>>
       ELSE UNCHANGED <<hasRecognition, isListening, transcript, showResults,
                        outfitRecommendations, timers, platform, startCalls>>

startListening ==
    /\ lastCall' = Call("startListening")
    /\ IF hasRecognition /\ ~isListening
       THEN /\ transcript' = <<>>
            /\ showResults' = FALSE
            /\ isListening' = TRUE
            /\ startCalls' = startCalls + 1
            /\ platform' = "capturing"
            /\ UNCHANGED <<hasRecognition, outfitRecommendations, timers>>
       ELSE UNCHANGED <<hasRecognition, isListening, transcript, showResults,
                        outfitRecommendations, timers, platform, startCalls>>

stopListening ==
    /\ lastCall' = Call("stopListening")
    /\ IF hasRecognition /\ isListening
       THEN /\ platform' = (IF platform = "capturing" THEN "stopping" ELSE platform)
            /\ isListening' = FALSE
            /\ UNCHANGED <<hasRecognition, transcript, showResults, outfitRecommendations,
                           timers, startCalls>>
       ELSE UNCHANGED <<hasRecognition, isListening, transcript, showResults,
                        outfitRecommendations, timers, platform, startCalls>>

handlePromptClick(prompt) ==
    /\ lastCall' = [Call("handlePromptClick") EXCEPT !.input = prompt]
    /\ transcript' = prompt
    /\ generateOutfitRecommendations(prompt)
    /\ UNCHANGED <<hasRecognition, timers, platform, startCalls>>

resetApp_KeepsRecommendations ==
    /\ lastCall' = Call("resetApp")
    /\ showResults' = FALSE
    /\ transcript' = <<>>
    /\ UNCHANGED <<hasRecognition, isListening, outfitRecommendations, timers, platform,
                   startCalls>>

resetApp_KeepsTranscript ==
    /\ lastCall' = Call("resetApp")
    /\ showResults' = FALSE
    /\ outfitRecommendations' = <<>>
    /\ UNCHANGED <<hasRecognition, isListening, transcript, timers, platform,
                   startCalls>>

resetApp ==
    /\ lastCall' = Call("resetApp")
    /\ showResults' = FALSE
    /\ transcript' = <<>>
    /\ outfitRecommendations' = <<>>
    /\ UNCHANGED <<hasRecognition, isListening, timers, platform, startCalls>>

onresult(event) ==
    LET acc == onresultLoop(event.results, event.resultIndex, <<>>, <<>>) IN
    /\ lastCall' = [Call("onresult") EXCEPT !.event = event]
    /\ transcript' = shownTranscript(acc)
    /\ timers' = timers \o scheduled(acc)
    /\ UNCHANGED <<hasRecognition, isListening, showResults, outfitRecommendations,
                   platform, startCalls>>

onerror ==
    /\ lastCall' = Call("onerror")
    /\ isListening' = FALSE
    /\ platform' = "errored"
    /\ UNCHANGED <<hasRecognition, transcript, showResults, outfitRecommendations,
                   timers, startCalls>>

onend ==
    /\ lastCall' = Call("onend")
    /\ isListening' = FALSE
    /\ platform' = "idle"
    /\ UNCHANGED <<hasRecognition, transcript, showResults, outfitRecommendations,
                   timers, startCalls>>

\* the setTimeout callback: generateOutfitRecommendations(finalTranscript)
settleTimeout ==
    /\ lastCall' = [Call("settleTimeout") EXCEPT !.input = Head(timers)]
    /\ generateOutfitRecommendations(Head(timers))
    /\ timers' = Tail(timers)
    /\ UNCHANGED <<hasRecognition, transcript, platform, startCalls>>

----------------------------------------------------------------------------
(* What the rendered screen and the recogniser let happen *)

\* onClick={isListening ? stopListening : startListening}, input view only
MicStart ==
    /\ ~showResults
    /\ ~isListening
    /\ startCalls < MaxStarts
    /\ startListening

MicStop ==
    /\ ~showResults
    /\ isListening
    /\ stopListening

PromptClick ==
    /\ ~showResults
    /\ \E i \in 1..Len(examplePrompts) : handlePromptClick(examplePrompts[i])

BackClick ==
    /\ showResults
    /\ resetApp

WillSchedule(event) ==
    scheduled(onresultLoop(event.results, event.resultIndex, <<>>, <<>>)) # <<>>

PlatformResult ==
    /\ platform \in {"capturing", "stopping"}
    /\ \E event \in Events :
          /\ WillSchedule(event) => Len(timers) < MaxTimers
          /\ onresult(event)

PlatformError ==
    /\ platform \in {"capturing", "stopping"}
    /\ onerror

PlatformEnd ==
    /\ platform \in {"capturing", "stopping", "errored"}
    /\ onend

TimerFires ==
    /\ timers # <<>>
    /\ settleTimeout

Next ==
    \/ MicStart
    \/ MicStop
    \/ PromptClick
    \/ BackClick
    \/ PlatformResult
    \/ PlatformError
    \/ PlatformEnd
    \/ TimerFires

Spec == Init /\ [][Next]_vars

----------------------------------------------------------------------------
(* Single-utterance sessions (continuous = false): the recogniser delivers  *)
(* nothing more while a settle timer is pending.  ResolveSpec speaks whole   *)
(* phrases as one final segment; CaptureSpec delivers events of several      *)
(* segments.                                                                 *)

Lexicon == {Str_date, Str_Dinner, Str_brunch_after, Str_friends,
            Str_work, Str_of, Str_fice, Str_walk}

RECURSIVE PhrasesOf(_)
PhrasesOf(n) ==
    IF n = 1 THEN Lexicon
    ELSE PhrasesOf(n - 1) \cup {p \o w : p \in PhrasesOf(n - 1), w \in Lexicon}

Phrases == PhrasesOf(MaxWords)

FinalEvent(p) == [results |-> <<[transcript |-> p, isFinal |-> TRUE]>>, resultIndex |-> 0]

Utterance ==
    /\ platform = "capturing"
    /\ timers = <<>>
    /\ \E p \in Phrases : onresult(FinalEvent(p))

NextResolve ==
    \/ MicStart
    \/ Utterance
    \/ PlatformEnd
    \/ TimerFires
    \/ BackClick

ResolveSpec == Init /\ [][NextResolve]_vars

CaptureTexts == {<<>>, Str_work, Str_date}

CaptureEvents == EventsOf(CaptureTexts, MaxCaptureSegs)

CaptureResult ==
    /\ platform = "capturing"
    /\ timers = <<>>
    /\ \E event \in CaptureEvents : onresult(event)

NextCapture ==
    \/ MicStart
    \/ CaptureResult
    \/ PlatformEnd
    \/ TimerFires
    \/ BackClick

CaptureSpec == Init /\ [][NextCapture]_vars

----------------------------------------------------------------------------
(* Vocabulary of the properties *)

Idle == ~isListening /\ ~showResults
Listening == isListening /\ ~showResults
Resolved == showResults /\ ~isListening

Occurs(kw, s) ==
    \E i \in 1..Len(s) :
        /\ i + Len(kw) - 1 <= Len(s)
        /\ \A j \in 1..Len(kw) : s[i + j - 1] = kw[j]

KeywordGroups ==
    << [keys |-> {Str_date, Str_dinner},    outfit |-> DateNightSet],
       [keys |-> {Str_brunch, Str_friends}, outfit |-> BrunchSet],
       [keys |-> {Str_work, Str_office},    outfit |-> WorkSet] >>

GroupHits(s) ==
    {g \in 1..Len(KeywordGroups) : \E kw \in KeywordGroups[g].keys : Occurs(kw, toLowerCase(s))}

FirstMatch(s) ==
    IF GroupHits(s) = {} THEN CasualSet
    ELSE KeywordGroups[CHOOSE g \in GroupHits(s) : \A h \in GroupHits(s) : g <= h].outfit

RECURSIVE Concat(_)
Concat(ss) == IF ss = <<>> THEN <<>> ELSE Head(ss).transcript \o Concat(Tail(ss))

IsFinalSeg(r) == r.isFinal
IsInterimSeg(r) == ~r.isFinal

EventSegs(event) == SubSeq(event.results, event.resultIndex + 1, Len(event.results))
FinalText(event) == Concat(SelectSeq(EventSegs(event), IsFinalSeg))
InterimText(event) == Concat(SelectSeq(EventSegs(event), IsInterimSeg))

----------------------------------------------------------------------------
(* Properties *)

\* C1: in every reachable state the recommendation list is non-empty exactly
\* when the results view is shown.
C1_RecommendationsIffResolved ==
    (outfitRecommendations # <<>>) <=> showResults

\* A session resolved by the settle timer, then reset, with a second capture
\* started afterwards: both directions of C1 have been exercised.
C1_Witness ==
    /\ lastCall.name = "settleTimeout"
    /\ showResults
    /\ outfitRecommendations = WorkSet
    /\ startCalls = 2

\* C2: once stop has been processed while Listening with a settle timer
\* pending, no step other than a new start or a canned-phrase selection
\* produces a recommendation or leaves Idle.
C2_StopCancelsPendingResolution ==
    [][(lastCall.name = "stopListening" /\ timers # <<>>
          /\ lastCall'.name \notin {"startListening", "handlePromptClick"})
        => (outfitRecommendations' = <<>> /\ ~showResults' /\ ~isListening')]_vars

\* C3: a reset invoked while the results view is shown leaves the session
\* Idle with an empty transcript and an empty recommendation list.
C3_ResetYieldsIdle ==
    [][(showResults /\ lastCall'.name = "resetApp")
        => (~showResults' /\ ~isListening' /\ transcript' = <<>>
            /\ outfitRecommendations' = <<>>)]_vars

\* Reset was invoked while the recogniser was still capturing and a settle
\* timer was still pending.
C3_Witness ==
    /\ lastCall.name = "resetApp"
    /\ Idle
    /\ transcript = <<>>
    /\ platform = "capturing"
    /\ timers # <<>>

\* C4: the listening flag and the results-shown flag are never both true.
C4_ListeningExcludesResults ==
    ~(isListening /\ showResults)

\* A canned phrase was selected while Listening: the session is Resolved and
\* no longer listening although the recogniser is still capturing.
C4_Witness ==
    /\ lastCall.name = "handlePromptClick"
    /\ platform = "capturing"
    /\ Resolved

\* C5: whenever the resolver has just run on a phrase, the recommendations are
\* the outfit set of the first keyword group (date/dinner, brunch/friends,
\* work/office) with a keyword occurring in the lowercased phrase, and the
\* Casual set when none occurs; brunch together with work gives Brunch, and
\* dinner gives Date-night whatever else occurs.
C5_FirstKeywordGroupWins ==
    lastCall.name \in {"settleTimeout", "handlePromptClick"} =>
        LET low == toLowerCase(lastCall.input) IN
        /\ outfitRecommendations = FirstMatch(lastCall.input)
        /\ (Occurs(Str_brunch, low) /\ Occurs(Str_work, low) /\ GroupHits(lastCall.input) = {2, 3})
               => outfitRecommendations = BrunchSet
        /\ Occurs(Str_dinner, low) => outfitRecommendations = DateNightSet

\* "brunch after work" was spoken and resolved to the Brunch set.
C5_Witness ==
    /\ lastCall.name = "settleTimeout"
    /\ lastCall.input = Str_brunch_after \o Str_work
    /\ outfitRecommendations = BrunchSet
    /\ showResults

\* C6: right after a capture result event the transcript is the concatenation
\* of the event's final segments from its result index on when that is
\* non-empty, and of its interim segments otherwise.
C6_FinalTakesPrecedence ==
    lastCall.name = "onresult" =>
        /\ transcript = (IF FinalText(lastCall.event) # <<>>
                         THEN FinalText(lastCall.event)
                         ELSE InterimText(lastCall.event))
        /\ FinalText(lastCall.event) # <<>> => transcript = FinalText(lastCall.event)

\* An event carrying an interim segment followed by a final one: the final
\* text alone is shown.
C6_Witness ==
    /\ lastCall.name = "onresult"
    /\ lastCall.event = [results |-> <<[transcript |-> Str_date, isFinal |-> FALSE],
                                       [transcript |-> Str_work, isFinal |-> TRUE]>>,
                         resultIndex |-> 0]
    /\ transcript = Str_work

\* C7: a result event never resolves in its own step and arms a settle timer
\* exactly when its final text is non-empty, with that text; the results view
\* or the recommendations change to a resolution only when a settle timer
\* fires or a canned phrase is selected; the timer resolves with the final
\* text it was armed with; a canned phrase sets the transcript and resolves
\* in one step.
C7_ResolutionPaths ==
    [][/\ lastCall'.name = "onresult" =>
            /\ showResults' = showResults
            /\ outfitRecommendations' = outfitRecommendations
            /\ timers' = (IF FinalText(lastCall'.event) # <<>>
                          THEN Append(timers, FinalText(lastCall'.event))
                          ELSE timers)
       /\ ((showResults' /\ ~showResults)
             \/ (outfitRecommendations' # outfitRecommendations /\ outfitRecommendations' # <<>>))
            => lastCall'.name \in {"settleTimeout", "handlePromptClick"}
       /\ lastCall'.name = "settleTimeout" =>
            /\ timers # <<>>
            /\ Head(timers) # <<>>
            /\ timers' = Tail(timers)
            /\ showResults'
            /\ outfitRecommendations' = FirstMatch(Head(timers))
       /\ lastCall'.name = "handlePromptClick" =>
            /\ transcript' = lastCall'.input
            /\ showResults'
            /\ outfitRecommendations' = FirstMatch(lastCall'.input)
            /\ timers' = timers
      ]_vars

\* An interim-only event arrived and armed nothing, while the session is
\* still Listening with its interim text shown.
C7_Witness ==
    /\ lastCall.name = "onresult"
    /\ FinalText(lastCall.event) = <<>>
    /\ InterimText(lastCall.event) = Str_work
    /\ timers = <<>>
    /\ Listening
    /\ transcript = Str_work

\* C8: without a recognition handle start changes nothing and the session
\* never listens nor starts the recogniser; with a handle and not listening,
\* start clears the transcript, enters Listening and issues one start.
C8_StartNeedsCapability ==
    /\ [](~hasRecognition => (~isListening /\ startCalls = 0 /\ platform = "idle"))
    /\ [][lastCall'.name = "startListening" =>
            IF hasRecognition /\ ~isListening
            THEN /\ transcript' = <<>>
                 /\ isListening' /\ ~showResults'
                 /\ startCalls' = startCalls + 1
            ELSE UNCHANGED <<isListening, transcript, showResults,
                             outfitRecommendations, startCalls, platform>>]_vars

\* Start was invoked with no recognition handle.
C8_Witness ==
    /\ ~hasRecognition
    /\ lastCall.name = "startListening"
    /\ ~isListening

\* C9: a capture error leaves the session Idle and issues no start to the
\* recogniser; starts are issued by startListening only.
C9_ErrorReturnsToIdle ==
    [][/\ lastCall'.name = "onerror" => (~isListening' /\ ~showResults')
       /\ startCalls' # startCalls => lastCall'.name = "startListening"]_vars

\* C10: whenever the results view is shown, the recommendations are the
\* resolver's result for the transcript shown with them.
C10_RecommendationsMatchTranscript ==
    showResults => outfitRecommendations = recommendations(transcript)

====
